---- MODULE Spec2Model ----
(***************************************************************************)
(* The organization-management front end:                                  *)
(*   TokenManager and HttpClient        (src/src/services/api.ts)          *)
(*   AuthService, OrganizationService   (src/unnamed/part_000)             *)
(*   OrganizationManagement             (src/src/components/               *)
(*                                       OrganizationManagement.tsx)       *)
(*                                                                         *)
(* A JavaScript string that holds a token is modelled by the sequence of   *)
(* its dot-separated segments (what token.split('.') returns), so the      *)
(* empty sequence is free to stand for null / undefined. Every optional    *)
(* value is a sequence of length 0 (null, undefined, no entry) or more.    *)
(***************************************************************************)
EXTENDS Integers, Sequences, FiniteSets, TLC

VARIABLES
    localStorage,   \* the four namespaced entries of the browser's storage
    now,            \* Date.now(), in milliseconds
    inflight,       \* the service calls awaiting their HTTP response
    ev,             \* the last step taken: what was sent, or how a call settled
    chk,            \* the last direct call of TokenManager.isTokenExpired
    view            \* the state of the OrganizationManagement component

vars == <<localStorage, now, inflight, ev, chk, view>>

(***************************************************************************)
(* Bounds of the model.                                                    *)
(***************************************************************************)
MaxTicks == 1        \* the clock stops after this many ticks
MaxTimers == 2       \* timers of the success message pending at the same time
MaxInflight == 2     \* calls awaiting a response at the same time
MaxSegments == 4     \* dot-separated segments of the tokens given to isTokenExpired
MaxExp == 2          \* largest exp (seconds) of the token payloads

(***************************************************************************)
(* Program constants.                                                      *)
(***************************************************************************)
MsPerSecond == 1000
\* The clock of the model advances by whole seconds.
TickMs == MsPerSecond

Null == <<>>

(***************************************************************************)
(* Token segments. A segment is the text between two dots; what matters of *)
(* it is what atob and JSON.parse make of it:                              *)
(*   "empty"      the empty text: atob gives "", JSON.parse("") throws     *)
(*   "undefined"  the text 'undefined': atob throws (9 characters)         *)
(*   "notBase64"  any other text atob rejects                              *)
(*   "notJson"    base64 of a text JSON.parse rejects                      *)
(*   "jsonNull"   base64 of 'null'                                         *)
(*   "jsonScalar" base64 of a JSON number, string, boolean or array        *)
(*   "jsonObject" base64 of a JSON object; exp says what its exp field is: *)
(*                "absent", "null", "string" (non-numeric) or "int" n      *)
(***************************************************************************)
Seg(kind, exp, n) == [kind |-> kind, exp |-> exp, n |-> n]

SegEmpty == Seg("empty", "absent", 0)
SegUndefinedText == Seg("undefined", "absent", 0)
SegNotBase64 == Seg("notBase64", "absent", 0)
SegNotJson == Seg("notJson", "absent", 0)
SegJsonNull == Seg("jsonNull", "absent", 0)
SegJsonScalar == Seg("jsonScalar", "absent", 0)
SegObject(exp, n) == Seg("jsonObject", exp, n)
SegExp(n) == SegObject("int", n)

Segments ==
    {SegEmpty, SegUndefinedText, SegNotBase64, SegNotJson, SegJsonNull, SegJsonScalar,
     SegObject("absent", 0), SegObject("null", 0), SegObject("string", 0)}
    \cup {SegExp(n) : n \in 0..MaxExp}

\* Segments that stand in the first and third place of the generated tokens
\* (header and signature): isTokenExpired never reads them.
OuterSegments == {SegEmpty, SegNotBase64}

(***************************************************************************)
(* atob, JSON.parse, property access and arithmetic, as isTokenExpired     *)
(* uses them. A thrown exception is the result [ok |-> FALSE].             *)
(***************************************************************************)
Thrown == [ok |-> FALSE, v |-> SegEmpty]
Ok(v) == [ok |-> TRUE, v |-> v]

\* token.split('.')[1]; a missing element is undefined, which atob converts
\* to the text 'undefined'.
middleSegment(token) == IF Len(token) >= 2 THEN token[2] ELSE SegUndefinedText

atob(seg) == IF seg.kind \in {"undefined", "notBase64"} THEN Thrown ELSE Ok(seg)

JSONparse(text) == IF text.kind \in {"empty", "notJson"} THEN Thrown ELSE Ok(text)

\* payload.exp: a TypeError on null, undefined on a scalar or when absent.
propertyExp(payload) ==
    CASE payload.kind = "jsonNull" -> Thrown
      [] payload.kind = "jsonObject" -> Ok([t |-> payload.exp, n |-> payload.n])
      [] OTHER -> Ok([t |-> "absent", n |-> 0])

\* ToNumber(exp) * 1000: NaN for undefined and for a non-numeric string, 0 for null.
NaN == [nan |-> TRUE, n |-> 0]
Num(n) == [nan |-> FALSE, n |-> n]
times1000(exp) ==
    CASE exp.t = "int" -> Num(exp.n * MsPerSecond)
      [] exp.t = "null" -> Num(0)
      [] OTHER -> NaN

\* a < b of JavaScript: false when a is NaN.
lessThan(a, b) == ~a.nan /\ a.n < b

isTokenExpiredMutNoScale(token, nowMs) ==
    LET decoded == atob(middleSegment(token))
        parsed == IF decoded.ok THEN JSONparse(decoded.v) ELSE Thrown
        exp == IF parsed.ok THEN propertyExp(parsed.v) ELSE Thrown
    IN  IF exp.ok THEN lessThan(Num(exp.v.n), nowMs) ELSE TRUE

\* TokenManager.isTokenExpired: try { JSON.parse(atob(token.split('.')[1])).exp * 1000
\* < Date.now() } catch { true }
isTokenExpired(token, nowMs) ==
    LET decoded == atob(middleSegment(token))
        parsed == IF decoded.ok THEN JSONparse(decoded.v) ELSE Thrown
        exp == IF parsed.ok THEN propertyExp(parsed.v) ELSE Thrown
    IN  IF exp.ok THEN lessThan(times1000(exp.v), nowMs) ELSE TRUE

(***************************************************************************)
(* Values the server sends and the storage keeps.                          *)
(***************************************************************************)
\* A token string of three segments whose payload is {"exp": n}.
Jwt(n) == <<SegNotBase64, SegExp(n), SegNotBase64>>
EmptyString == <<SegEmpty>>          \* ''
UndefinedString == <<SegUndefinedText>>  \* 'undefined', what String(undefined) is

\* The token values a login / refresh response can carry (Null: no token field).
\* Time is counted from the start of the run: Jwt(0) expires after the first
\* tick of the clock, Jwt(1) after the second.
ResponseTokens == {Null, EmptyString, Jwt(0), Jwt(1)}
\* Refresh tokens are opaque strings.
ResponseRefreshTokens == {Null, <<"r1">>, <<"r2">>}
\* User objects (organisation_id 0: none).
User(id, org) == [id |-> id, organisation_id |-> org]

\* response.data of /login, /register and /token/refresh: every complete
\* one, and the ones that lack a token or a user.
LoginData(token, refreshToken, user, first) ==
    [token |-> token, refreshToken |-> refreshToken, user |-> user, first_time_login |-> first]
\* The server issues Jwt(0) to the first user and Jwt(1) to the second.
Session(n, r, f) == LoginData(Jwt(n), r, <<User(n + 1, IF n = 0 THEN 7 ELSE 0)>>, f)
LoginResponses ==
    {Session(n, r, f) : n \in {0, 1}, r \in ResponseRefreshTokens, f \in {0, 1}}
    \cup {LoginData(t, <<"r2">>, <<User(2, 0)>>, 1) : t \in {Null, EmptyString}}
    \cup {LoginData(t, <<"r2">>, Null, 1) : t \in {Null, Jwt(1)}}

\* JavaScript truthiness of an optional string: null, undefined and '' are falsy.
truthy(token) == token # Null /\ token # EmptyString
truthyRefresh(token) == token # Null /\ token # <<"">>

\* String(v) as localStorage.setItem applies it to a token / refresh token.
tokenString(v) == IF v = Null THEN UndefinedString ELSE v
refreshString(v) == IF v = Null THEN <<"undefined">> ELSE v

\* JSON.stringify(user): a JSON text, or undefined for undefined, which setItem
\* stores as the text 'undefined'.
JSONstringify(user) ==
    IF user = Null THEN [text |-> "undefined", obj |-> User(0, 0)]
    ELSE [text |-> "json", obj |-> user[1]]

(***************************************************************************)
(* TokenManager (src/src/services/api.ts:23-84) over a storage value ls.   *)
(***************************************************************************)
EmptyStorage == [token |-> Null, refreshToken |-> Null, firstTimeLogin |-> Null, user |-> Null]

getToken(ls) == ls.token
setToken(ls, token) == [ls EXCEPT !.token = tokenString(token)]
getRefreshToken(ls) == ls.refreshToken
setRefreshToken(ls, token) == [ls EXCEPT !.refreshToken = refreshString(token)]
getFirstTimeLogin(ls) == ls.firstTimeLogin = <<"1">>
setFirstTimeLogin(ls, isFirstTime) ==
    [ls EXCEPT !.firstTimeLogin = IF isFirstTime THEN <<"1">> ELSE <<"0">>]
\* user ? JSON.parse(user) : null; JSON.parse('undefined') throws.
getUser(ls) ==
    IF ls.user = Null THEN [ok |-> TRUE, v |-> Null]
    ELSE IF ls.user[1].text = "json" THEN [ok |-> TRUE, v |-> <<ls.user[1].obj>>]
    ELSE [ok |-> FALSE, v |-> Null]
setUser(ls, user) == [ls EXCEPT !.user = <<JSONstringify(user)>>]

clearTokens(ls) == EmptyStorage

(***************************************************************************)
(* HTTP responses. kind "network": fetch rejects with a TypeError;         *)
(* "timeout": the AbortSignal.timeout signal aborts the fetch, which       *)
(* rejects with a DOMException named TimeoutError; "http": a response.     *)
(* A body is unparseable, an envelope (it has a success field) or a raw    *)
(* JSON object, which is then the data.                                    *)
(***************************************************************************)
Body(kind, success, data, message) ==
    [kind |-> kind, success |-> success, data |-> data, message |-> message]
NoBody == Body("unparseable", FALSE, Null, Null)

\* The responses that come as a raw object, without the envelope.
RawData == {Session(1, <<"r2">>, 1), LoginData(Jwt(1), <<"r2">>, Null, 1),
            [id |-> 7, name |-> "Acme"]}

\* The bodies without data, and those whose data is drawn from D.
PlainBodies ==
    {NoBody, Body("envelope", TRUE, Null, Null)}
    \cup {Body("envelope", FALSE, Null, m) : m \in {Null, <<"server message">>}}
Bodies(D) ==
    PlainBodies
    \cup {Body("envelope", TRUE, <<x>>, Null) : x \in D}
    \cup {Body("raw", FALSE, <<x>>, Null) : x \in D \cap RawData}

Statuses == {200, 401, 500}
ok(status) == status >= 200 /\ status <= 299

Response(kind, status, json, body) ==
    [kind |-> kind, status |-> status, json |-> json, body |-> body]
\* json: the content-type header includes application/json.
\* Data comes with status 200; an error status comes with a plain body.
Responses(D) ==
    {Response("network", 0, FALSE, NoBody), Response("timeout", 0, FALSE, NoBody)}
    \cup {Response("http", 200, TRUE, b) : b \in Bodies(D)}
    \cup {Response("http", st, TRUE, b) : st \in Statuses, b \in PlainBodies}
    \cup {Response("http", st, FALSE, NoBody) : st \in Statuses}

(***************************************************************************)
(* HttpClient.request (src/src/services/api.ts:114-203).                   *)
(***************************************************************************)
\* Lines 119-136: the Authorization header of the outgoing request and the
\* storage after the expiry check. headers is the Authorization header of
\* options.headers (Null: none), nowMs what Date.now() returns in the check.
prepare(ls, headers, nowMs) ==
    LET token == getToken(ls)
    IN  IF truthy(token) /\ ~isTokenExpired(token, nowMs)
        THEN [ls |-> ls, auth |-> token]
        ELSE IF truthy(token) /\ isTokenExpired(token, nowMs)
        THEN [ls |-> clearTokens(ls), auth |-> headers]
        ELSE [ls |-> ls, auth |-> headers]

\* HttpClient.upload, lines 246-252: the header upload computes itself, at
\* its own reading of the clock, and hands to request in options.headers.
uploadHeaders(ls, nowMs) ==
    LET token == getToken(ls)
    IN  IF truthy(token) /\ ~isTokenExpired(token, nowMs) THEN token ELSE Null

\* What a call of request settles with.
Outcome(ls, resolved, env, err) == [ls |-> ls, resolved |-> resolved, env |-> env, err |-> err]
Envelope(success, data, message) == [success |-> success, data |-> data, message |-> message]
NoEnvelope == Envelope(FALSE, Null, Null)
Rejected(ls, err) == Outcome(ls, FALSE, NoEnvelope, err)

\* Lines 155-166: the data of a response, or a thrown SyntaxError.
responseData(resp) ==
    IF resp.json
    THEN IF resp.body.kind = "unparseable" THEN [ok |-> FALSE, v |-> NoBody]
         ELSE [ok |-> TRUE, v |-> resp.body]
    ELSE [ok |-> TRUE,
          v |-> Body("envelope", ok(resp.status), Null,
                     IF ok(resp.status) THEN <<"Success">> ELSE <<"Request failed">>)]

\* data.message || `HTTP ${status}: ${statusText}` (line 177)
errorMessage(data, status) ==
    IF data.kind = "envelope" /\ data.message # Null THEN data.message[1]
    ELSE IF status = 401 THEN "HTTP 401: Unauthorized"
    ELSE IF status = 200 THEN "HTTP 200: OK"
    ELSE "HTTP 500: Internal Server Error"

\* Lines 148-202: the response handling of request.
settle(ls, resp) ==
    LET data == responseData(resp)
    IN  CASE resp.kind = "network" -> Rejected(ls, "Failed to fetch")
          [] resp.kind = "timeout" -> Rejected(ls, "TimeoutError")
          [] ~data.ok -> Rejected(ls, "SyntaxError")
          [] resp.status = 401 -> Rejected(clearTokens(ls), "Authentication required")
          [] ~ok(resp.status) -> Rejected(ls, errorMessage(data.v, resp.status))
          [] data.v.kind = "raw" -> Outcome(ls, TRUE, Envelope(TRUE, data.v.data, Null), "")
          [] OTHER ->
              Outcome(ls, TRUE, Envelope(data.v.success, data.v.data, data.v.message), "")

(***************************************************************************)
(* AuthService (src/unnamed/part_000:59-500): what each operation does     *)
(* with the outcome `out` of its HttpClient call.                          *)
(***************************************************************************)
Result(ls, resolved, value, err) == [ls |-> ls, resolved |-> resolved, value |-> value, err |-> err]

\* env.message || fallback
messageOr(env, fallback) == IF env.message # Null THEN env.message[1] ELSE fallback

storeSessionMutFlagAlways(ls, d) ==
    LET ls1 == setToken(ls, d.token)
        ls2 == IF truthyRefresh(d.refreshToken) THEN setRefreshToken(ls1, d.refreshToken) ELSE ls1
        ls3 == setFirstTimeLogin(ls2, TRUE)
    IN  setUser(ls3, d.user)

\* Lines 91-98 (login) and 162-169 (register): the writes of a validated response.
storeSession(ls, d) ==
    LET ls1 == setToken(ls, d.token)
        ls2 == IF truthyRefresh(d.refreshToken) THEN setRefreshToken(ls1, d.refreshToken) ELSE ls1
        ls3 == setFirstTimeLogin(ls2, d.first_time_login = 1)
    IN  setUser(ls3, d.user)

authResultMutNoClear(out, fallback) ==
    IF ~out.resolved THEN Result(out.ls, FALSE, Null, out.err)
    ELSE IF out.env.success /\ out.env.data # Null
    THEN LET d == out.env.data[1]
         IN  IF ~truthy(d.token)
             THEN Result(out.ls, FALSE, Null, "No authentication token received from server")
             ELSE IF d.user = Null
             THEN Result(out.ls, FALSE, Null, "No user data received from server")
             ELSE Result(storeSession(out.ls, d), TRUE, out.env.data, "")
    ELSE Result(out.ls, FALSE, Null, messageOr(out.env, fallback))

authResultMutPartialWrite(out, fallback) ==
    IF ~out.resolved THEN Result(clearTokens(out.ls), FALSE, Null, out.err)
    ELSE IF out.env.success /\ out.env.data # Null
    THEN LET d == out.env.data[1]
         IN  IF ~truthy(d.token)
             THEN Result(clearTokens(out.ls), FALSE, Null,
                         "No authentication token received from server")
             ELSE IF d.user = Null
             THEN Result(setToken(out.ls, d.token), FALSE, Null,
                         "No user data received from server")
             ELSE Result(storeSession(out.ls, d), TRUE, out.env.data, "")
    ELSE Result(clearTokens(out.ls), FALSE, Null, messageOr(out.env, fallback))

\* The try / catch of login (lines 64-124) and of register (lines 131-190):
\* every throw inside the try is caught, clears the storage and is rethrown.
authResult(out, fallback) ==
    IF ~out.resolved THEN Result(clearTokens(out.ls), FALSE, Null, out.err)
    ELSE IF out.env.success /\ out.env.data # Null
    THEN LET d == out.env.data[1]
         IN  IF ~truthy(d.token)
             THEN Result(clearTokens(out.ls), FALSE, Null,
                         "No authentication token received from server")
             ELSE IF d.user = Null
             THEN Result(clearTokens(out.ls), FALSE, Null, "No user data received from server")
             ELSE Result(storeSession(out.ls, d), TRUE, out.env.data, "")
    ELSE Result(clearTokens(out.ls), FALSE, Null, messageOr(out.env, fallback))

loginResult(out) == authResult(out, "Login failed")
registerResult(out) == authResult(out, "Registration failed")

logoutResultMutClearOnSuccessOnly(out) ==
    Result(IF out.resolved THEN clearTokens(out.ls) ELSE out.ls, TRUE, Null, "")

\* logout, lines 196-210: the catch swallows, the finally clears.
logoutResult(out) == Result(clearTokens(out.ls), TRUE, Null, "")

refreshTokenResultMutKeepOnFailure(out) ==
    IF ~out.resolved THEN Result(out.ls, FALSE, Null, out.err)
    ELSE IF out.env.success /\ out.env.data # Null
    THEN LET d == out.env.data[1]
         IN  Result(setUser(setRefreshToken(setToken(out.ls, d.token), d.refreshToken), d.user),
                    TRUE, out.env.data, "")
    ELSE Result(out.ls, FALSE, Null, messageOr(out.env, "Token refresh failed"))

refreshTokenResultMutSkipAfterClear(out) ==
    IF ~out.resolved THEN Result(clearTokens(out.ls), FALSE, Null, out.err)
    ELSE IF out.env.success /\ out.env.data # Null
    THEN LET d == out.env.data[1]
         IN  Result(IF getRefreshToken(out.ls) = Null THEN out.ls
                    ELSE setUser(setRefreshToken(setToken(out.ls, d.token), d.refreshToken),
                                 d.user),
                    TRUE, out.env.data, "")
    ELSE Result(clearTokens(out.ls), FALSE, Null, messageOr(out.env, "Token refresh failed"))

\* refreshToken, lines 399-415, once the response has arrived.
refreshTokenResult(out) ==
    IF ~out.resolved THEN Result(clearTokens(out.ls), FALSE, Null, out.err)
    ELSE IF out.env.success /\ out.env.data # Null
    THEN LET d == out.env.data[1]
         IN  Result(setUser(setRefreshToken(setToken(out.ls, d.token), d.refreshToken), d.user),
                    TRUE, out.env.data, "")
    ELSE Result(clearTokens(out.ls), FALSE, Null, messageOr(out.env, "Token refresh failed"))

isAuthenticatedMutPresentOnly(ls, nowMs) == getToken(ls) # Null

\* isAuthenticated, lines 421-429.
isAuthenticatedResult(ls, nowMs) ==
    getToken(ls) # Null /\ ~isTokenExpired(getToken(ls), nowMs)

(***************************************************************************)
(* OrganizationService (src/unnamed/part_000:541-681): what each operation *)
(* does with the outcome `out` of its HttpClient call.                     *)
(***************************************************************************)
Organization(id, name) == [id |-> id, name |-> name]
OrgData == {Organization(7, "Acme")}

dataOrThrowMutNullOnFailure(out, fallback) ==
    IF out.resolved /\ out.env.success /\ out.env.data # Null
    THEN Result(out.ls, TRUE, out.env.data, "")
    ELSE Result(out.ls, TRUE, Null, "")

\* if (response.success && response.data) return response.data;
\* throw new Error(response.message || fallback); the catch rethrows.
dataOrThrow(out, fallback) ==
    IF ~out.resolved THEN Result(out.ls, FALSE, Null, out.err)
    ELSE IF out.env.success /\ out.env.data # Null
    THEN Result(out.ls, TRUE, out.env.data, "")
    ELSE Result(out.ls, FALSE, Null, messageOr(out.env, fallback))

\* getOrganizations, lines 551-569: a response with success is returned as
\* it is (value: its data), with or without data.
getOrganizationsResult(out) ==
    IF ~out.resolved THEN Result(out.ls, FALSE, Null, out.err)
    ELSE IF out.env.success THEN Result(out.ls, TRUE, out.env.data, "")
    ELSE Result(out.ls, FALSE, Null, messageOr(out.env, "Failed to fetch organizations"))

\* getCurrentUserOrganization, lines 667-679: null where the others throw,
\* and the catch returns null too.
getCurrentUserOrganizationResult(out) ==
    IF out.resolved /\ out.env.success /\ out.env.data # Null
    THEN Result(out.ls, TRUE, out.env.data, "")
    ELSE Result(out.ls, TRUE, Null, "")


(***************************************************************************)
(* AuthService, the operations on the profile (part_000:215-381, 483-499). *)
(***************************************************************************)
\* response.data of /user, /user/profile and /user/avatar.
UserData == {User(3, 7)}

userOrThrowMutNoStore(out, fallback) ==
    IF ~out.resolved THEN Result(out.ls, FALSE, Null, out.err)
    ELSE IF out.env.success /\ out.env.data # Null
    THEN Result(out.ls, TRUE, out.env.data, "")
    ELSE Result(out.ls, FALSE, Null, messageOr(out.env, fallback))

\* if (response.success && response.data) { TokenManager.setUser(response.data);
\* return response.data; } throw new Error(response.message || fallback);
\* the catch rethrows.
userOrThrow(out, fallback) ==
    IF ~out.resolved THEN Result(out.ls, FALSE, Null, out.err)
    ELSE IF out.env.success /\ out.env.data # Null
    THEN Result(setUser(out.ls, out.env.data), TRUE, out.env.data, "")
    ELSE Result(out.ls, FALSE, Null, messageOr(out.env, fallback))

getUserOrganizationResultMutThrow(out) ==
    IF out.resolved /\ out.env.success /\ out.env.data # Null
    THEN Result(out.ls, TRUE, out.env.data, "")
    ELSE Result(out.ls, FALSE, Null, "Failed to fetch organization")

\* getUserOrganization, lines 254-264: the data, or null after a response
\* without success and data, or null from the catch.
getUserOrganizationResult(out) ==
    IF out.resolved /\ out.env.success /\ out.env.data # Null
    THEN Result(out.ls, TRUE, out.env.data, "")
    ELSE Result(out.ls, TRUE, Null, "")

\* if (!response.success) throw new Error(response.message || fallback);
\* the catch rethrows; the operation resolves with nothing (deleteOrganization
\* and the five single-request operations of AuthService).
voidOrThrow(out, fallback) ==
    IF ~out.resolved THEN Result(out.ls, FALSE, Null, out.err)
    ELSE IF ~out.env.success THEN Result(out.ls, FALSE, Null, messageOr(out.env, fallback))
    ELSE Result(out.ls, TRUE, Null, "")


(***************************************************************************)
(* The OrganizationManagement component                                    *)
(* (src/src/components/OrganizationManagement.tsx). An object is a record  *)
(* of the fields it has; a field it lacks reads as undefined.              *)
(***************************************************************************)
Undefined == "undefined"
get(o, f) == IF f \in DOMAIN o THEN o[f] ELSE Undefined

FormFields == {"name", "email", "address", "phone"}
DecorativeFields == {"avatar", "role", "memberCount", "plan"}
EmptyForm == [f \in FormFields |-> ""]

\* currentOrganization.name || '', and so on (lines 47-52 and 77-82).
formOf(org) ==
    [f \in FormFields |-> IF get(org, f) = Undefined THEN "" ELSE org[f]]

\* The organizations the context hands to the component at the start: one
\* with every field, one without the optional fields.
DisplayedOrgs ==
    {[id |-> 42, name |-> "Old", email |-> "old@y.com", address |-> "1 Main St",
      phone |-> "555", avatar |-> "A", role |-> "Admin", memberCount |-> "5",
      plan |-> "Pro"],
     [id |-> 42, name |-> "Old", avatar |-> "A", role |-> "Admin",
      memberCount |-> "5", plan |-> "Pro"]}

\* response.data of PUT /organisations/42 and POST /organisations: the
\* organization as the service types it, and one that also carries fields
\* named like the decorative ones.
SavedOrgs ==
    {[id |-> 42, name |-> "Acme", email |-> "x@y.com"],
     [id |-> 42, name |-> "Acme", phone |-> "777", avatar |-> "S", role |-> "Member",
      memberCount |-> "9", plan |-> "Free"]}

mergeSavedMutServerWins(current, updatedOrg) ==
    [f \in DOMAIN current \cup DOMAIN updatedOrg |->
        IF f \in DOMAIN updatedOrg THEN updatedOrg[f] ELSE current[f]]

\* { ...currentOrganization, ...updatedOrg, avatar: currentOrganization.avatar,
\*   role: ..., memberCount: ..., plan: ... } (lines 106-113)
mergeSaved(current, updatedOrg) ==
    [f \in DOMAIN current \cup DOMAIN updatedOrg \cup DecorativeFields |->
        IF f \in DecorativeFields THEN get(current, f)
        ELSE IF f \in DOMAIN updatedOrg THEN updatedOrg[f]
        ELSE current[f]]

\* The component after its first render with the context's organization org;
\* the effect of lines 45-54 has filled the edit form. timers: the pending
\* timers that clear the success message; closure: the currentOrganization
\* the running handler captured.
InitialView(org) ==
    [currentOrganization |-> org, isEditing |-> FALSE, showCreateModal |-> FALSE,
     showDeleteModal |-> FALSE, loading |-> FALSE, error |-> Null, success |-> Null,
     editFormData |-> IF org = Null THEN EmptyForm ELSE formOf(org[1]),
     createFormData |-> EmptyForm, timers |-> 0, closure |-> Null]

\* updateOrganization of the OrganizationContext, which is not part of the
\* sources: the organization it is given becomes currentOrganization, and the
\* effect of lines 45-54 then fills the edit form from it.
contextUpdateOrganization(v, org) ==
    [v EXCEPT !.currentOrganization = <<org>>, !.editFormData = formOf(org)]


(***************************************************************************)
(* The state machine. Every async operation is two steps: the call, which  *)
(* runs synchronously up to the fetch (request's expiry check included),   *)
(* and the settling, which runs when the response arrives. Other calls     *)
(* may start and settle in between.                                        *)
(***************************************************************************)
\* resp: the response the step handled; env: the envelope request returned;
\* url, body: the endpoint and the data of the request, for the operations
\* that compute them.
NoResponse == Response("none", 0, FALSE, NoBody)
Event(type, op, verb, auth, status, outcome, value, err, result) ==
    [type |-> type, op |-> op, verb |-> verb, auth |-> auth, status |-> status,
     outcome |-> outcome, value |-> value, err |-> err, result |-> result,
     resp |-> NoResponse, env |-> NoEnvelope, url |-> Null, body |-> Null,
     args |-> Null]
Sent(op, verb, auth) == Event("send", op, verb, auth, 0, "none", Null, "", FALSE)
Settled(op, verb, resp, r) ==
    [Event("settle", op, verb, Null, resp.status,
           IF r.resolved THEN "resolved" ELSE "rejected", r.value, r.err, FALSE)
     EXCEPT !.resp = resp]
NoEvent(type) == Event(type, "", "", Null, 0, "none", Null, "", FALSE)
NoCheck == [called |-> FALSE, token |-> Null, nowMs |-> 0, result |-> FALSE]

Verbs == {"GET", "POST", "PUT", "PATCH", "DELETE"}

\* The data of the responses to the direct HttpClient calls.
SampleData == {LoginData(Jwt(1), <<"r2">>, Null, 1)}

Init ==
    /\ localStorage = EmptyStorage
    /\ now = 0
    /\ inflight = {}
    /\ ev = NoEvent("init")
    /\ chk = NoCheck
    /\ view = InitialView(Null)

CanCall(op) == op \notin inflight /\ Cardinality(inflight) < MaxInflight

\* request, up to the fetch.
Send(op, verb, headers, nowMs) ==
    LET p == prepare(localStorage, headers, nowMs)
    IN  /\ CanCall(op)
        /\ localStorage' = p.ls
        /\ inflight' = inflight \cup {op}
        /\ ev' = Sent(op, verb, p.auth)
        /\ UNCHANGED <<chk, view>>

\* Date.now() advances.
Tick ==
    /\ now < MaxTicks * TickMs
    /\ now' = now + TickMs
    /\ ev' = NoEvent("tick")
    /\ UNCHANGED <<localStorage, inflight, chk, view>>

\* httpClient.get / post / put / patch / delete called directly.
httpCall(verb) == Send("http", verb, Null, now) /\ UNCHANGED now

\* httpClient.upload: upload reads the clock for its own header, request reads
\* it again; the clock may have advanced in between.
uploadCall(advance) ==
    /\ now + advance <= MaxTicks * TickMs
    /\ now' = now + advance
    /\ Send("http", "UPLOAD", uploadHeaders(localStorage, now), now')

httpSettle(resp) ==
    LET out == settle(localStorage, resp)
    IN  /\ "http" \in inflight
        /\ localStorage' = out.ls
        /\ inflight' = inflight \ {"http"}
        /\ ev' = [Settled("http", ev.verb, resp,
                           Result(out.ls, out.resolved, out.env.data, out.err))
                   EXCEPT !.env = out.env]
        /\ UNCHANGED <<now, chk, view>>

\* An AuthService operation settles with result r.
Finish(op, resp, r) ==
    /\ op \in inflight
    /\ localStorage' = r.ls
    /\ inflight' = inflight \ {op}
    /\ ev' = Settled(op, "POST", resp, r)
    /\ UNCHANGED <<now, chk, view>>

loginCall == Send("login", "POST", Null, now) /\ UNCHANGED now
loginSettle(resp) == Finish("login", resp, loginResult(settle(localStorage, resp)))

registerCall == Send("register", "POST", Null, now) /\ UNCHANGED now
registerSettle(resp) == Finish("register", resp, registerResult(settle(localStorage, resp)))

logoutCall == Send("logout", "POST", Null, now) /\ UNCHANGED now
logoutSettle(resp) == Finish("logout", resp, logoutResult(settle(localStorage, resp)))

\* refreshToken, lines 388-397: without a refresh token it throws before any
\* request; the catch clears the storage and rethrows.
refreshTokenCall ==
    IF truthyRefresh(getRefreshToken(localStorage))
    THEN Send("refreshToken", "POST", Null, now) /\ UNCHANGED now
    ELSE /\ CanCall("refreshToken")
         /\ localStorage' = clearTokens(localStorage)
         /\ ev' = Event("settle", "refreshToken", "", Null, 0, "rejected", Null,
                        "No refresh token available", FALSE)
         /\ UNCHANGED <<now, inflight, chk, view>>
refreshTokenSettle(resp) ==
    Finish("refreshToken", resp, refreshTokenResult(settle(localStorage, resp)))

\* isAuthenticated is synchronous.
isAuthenticated ==
    /\ ev' = Event("sync", "isAuthenticated", "", Null, 0, "resolved", Null, "",
                   isAuthenticatedResult(localStorage, now))
    /\ UNCHANGED <<localStorage, now, inflight, chk, view>>

Next ==
    \/ Tick
    \/ \E verb \in Verbs : httpCall(verb)
    \/ \E advance \in {0, TickMs} : uploadCall(advance)
    \/ \E resp \in Responses(SampleData) : httpSettle(resp)
    \/ loginCall
    \/ \E resp \in Responses(LoginResponses) : loginSettle(resp)
    \/ registerCall
    \/ \E resp \in Responses(LoginResponses) : registerSettle(resp)
    \/ logoutCall
    \/ \E resp \in Responses(SampleData) : logoutSettle(resp)
    \/ refreshTokenCall
    \/ \E resp \in Responses(LoginResponses) : refreshTokenSettle(resp)
    \/ isAuthenticated

Spec == Init /\ [][Next]_vars

(***************************************************************************)
(* TokenManager.isTokenExpired called directly, on every token of up to    *)
(* MaxSegments segments, at every time of the clock.                       *)
(***************************************************************************)
RECURSIVE TokensOfLength(_)
TokensOfLength(n) ==
    IF n = 1 THEN {<<s>> : s \in Segments}
    ELSE IF n = 2 THEN {<<h, s>> : h \in OuterSegments, s \in Segments}
    ELSE {Append(t, s) : t \in TokensOfLength(n - 1), s \in OuterSegments}
Tokens == UNION {TokensOfLength(n) : n \in 1..MaxSegments}

isTokenExpiredCall(token) ==
    /\ chk' = [called |-> TRUE, token |-> token, nowMs |-> now,
               result |-> isTokenExpired(token, now)]
    /\ ev' = NoEvent("check")
    /\ UNCHANGED <<localStorage, now, inflight, view>>

TokenNext ==
    \/ Tick
    \/ \E token \in Tokens : isTokenExpiredCall(token)

TokenSpec == Init /\ [][TokenNext]_vars

(***************************************************************************)
(* The OrganizationService operations, after a login or without one.       *)
(***************************************************************************)
Call(op, verb) == Send(op, verb, Null, now) /\ UNCHANGED now

\* Each operation is its call or, for a response, its settling.
getOrganizations ==
    \/ Call("getOrganizations", "GET")
    \/ \E resp \in Responses(OrgData) :
           Finish("getOrganizations", resp, getOrganizationsResult(settle(localStorage, resp)))

getOrganization ==
    \/ Call("getOrganization", "GET")
    \/ \E resp \in Responses(OrgData) :
           Finish("getOrganization", resp,
                  dataOrThrow(settle(localStorage, resp), "Failed to fetch organization"))

createOrganization ==
    \/ Call("createOrganization", "POST")
    \/ \E resp \in Responses(OrgData) :
           Finish("createOrganization", resp,
                  dataOrThrow(settle(localStorage, resp), "Failed to create organization"))

updateOrganization ==
    \/ Call("updateOrganization", "PUT")
    \/ \E resp \in Responses(OrgData) :
           Finish("updateOrganization", resp,
                  dataOrThrow(settle(localStorage, resp), "Failed to update organization"))

deleteOrganization ==
    \/ Call("deleteOrganization", "DELETE")
    \/ \E resp \in Responses(OrgData) :
           Finish("deleteOrganization", resp,
                  voidOrThrow(settle(localStorage, resp), "Failed to delete organization"))

searchOrganizations ==
    \/ Call("searchOrganizations", "GET")
    \/ \E resp \in Responses(OrgData) :
           Finish("searchOrganizations", resp,
                  dataOrThrow(settle(localStorage, resp), "Failed to search organizations"))

getCurrentUserOrganization ==
    \/ Call("getCurrentUserOrganization", "GET")
    \/ \E resp \in Responses(OrgData) :
           Finish("getCurrentUserOrganization", resp,
                  getCurrentUserOrganizationResult(settle(localStorage, resp)))

\* The logins that start the sessions the service calls run in: a user with
\* an organisation and one without.
ServiceLogins == {Session(0, <<"r1">>, 1), Session(1, <<"r1">>, 1)}

OrgNext ==
    \/ Tick
    \/ loginCall
    \/ \E resp \in Responses(ServiceLogins) : loginSettle(resp)
    \/ getOrganizations
    \/ getOrganization
    \/ createOrganization
    \/ updateOrganization
    \/ deleteOrganization
    \/ searchOrganizations
    \/ getCurrentUserOrganization

OrgSpec == Init /\ [][OrgNext]_vars


(***************************************************************************)
(* The AuthService operations on the profile, after a login or without     *)
(* one.                                                                    *)
(***************************************************************************)
\* request to a given endpoint, up to the fetch.
SendTo(op, verb, url, headers, nowMs) ==
    LET p == prepare(localStorage, headers, nowMs)
    IN  /\ CanCall(op)
        /\ localStorage' = p.ls
        /\ inflight' = inflight \cup {op}
        /\ ev' = [Sent(op, verb, p.auth) EXCEPT !.url = url]
        /\ UNCHANGED <<chk, view>>

\* An operation that settles without a request.
Completed(op, resolved, value, err) ==
    /\ CanCall(op)
    /\ ev' = Event("settle", op, "", Null, 0,
                   IF resolved THEN "resolved" ELSE "rejected", value, err, FALSE)
    /\ UNCHANGED <<localStorage, now, inflight, chk, view>>

getCurrentUserCallMutAlwaysFetch ==
    SendTo("getCurrentUser", "GET", <<"/user">>, Null, now) /\ UNCHANGED now

\* getCurrentUser, lines 216-229: the cached user if there is one (getUser
\* throws on a stored text that is not JSON), GET /user otherwise.
getCurrentUserCall ==
    LET localUser == getUser(localStorage)
    IN  IF ~localUser.ok THEN Completed("getCurrentUser", FALSE, Null, "SyntaxError")
        ELSE IF localUser.v # Null THEN Completed("getCurrentUser", TRUE, localUser.v, "")
        ELSE SendTo("getCurrentUser", "GET", <<"/user">>, Null, now) /\ UNCHANGED now
getCurrentUserSettle(resp) ==
    Finish("getCurrentUser", resp,
           userOrThrow(settle(localStorage, resp), "Failed to get user profile"))

\* getUserOrganization, lines 245-253: the catch turns the throw of
\* getStoredUser into null; organisation_id 0 stands for none.
getUserOrganizationCall ==
    LET user == getUser(localStorage)
    IN  IF ~user.ok \/ user.v = Null THEN Completed("getUserOrganization", TRUE, Null, "")
        ELSE IF user.v[1].organisation_id = 0
        THEN Completed("getUserOrganization", TRUE, Null, "")
        ELSE SendTo("getUserOrganization", "GET",
                    <<"/organisations", user.v[1].organisation_id>>, Null, now)
             /\ UNCHANGED now
getUserOrganizationSettle(resp) ==
    Finish("getUserOrganization", resp, getUserOrganizationResult(settle(localStorage, resp)))

updateProfile ==
    \/ Call("updateProfile", "PUT")
    \/ \E resp \in Responses(UserData) :
           Finish("updateProfile", resp,
                  userOrThrow(settle(localStorage, resp), "Failed to update profile"))

\* uploadAvatar goes through httpClient.upload, which reads the clock for its
\* own header before request reads it.
uploadAvatar ==
    \/ \E advance \in {0, TickMs} :
           /\ now + advance <= MaxTicks * TickMs
           /\ now' = now + advance
           /\ Send("uploadAvatar", "UPLOAD", uploadHeaders(localStorage, now), now')
    \/ \E resp \in Responses(UserData) :
           Finish("uploadAvatar", resp,
                  userOrThrow(settle(localStorage, resp), "Failed to upload avatar"))

changePassword ==
    \/ Call("changePassword", "POST")
    \/ \E resp \in Responses({}) :
           Finish("changePassword", resp,
                  voidOrThrow(settle(localStorage, resp), "Failed to change password"))

requestPasswordReset ==
    \/ Call("requestPasswordReset", "POST")
    \/ \E resp \in Responses({}) :
           Finish("requestPasswordReset", resp,
                  voidOrThrow(settle(localStorage, resp), "Failed to request password reset"))

resetPassword ==
    \/ Call("resetPassword", "POST")
    \/ \E resp \in Responses({}) :
           Finish("resetPassword", resp,
                  voidOrThrow(settle(localStorage, resp), "Failed to reset password"))

verifyEmail ==
    \/ Call("verifyEmail", "POST")
    \/ \E resp \in Responses({}) :
           Finish("verifyEmail", resp,
                  voidOrThrow(settle(localStorage, resp), "Failed to verify email"))

resendEmailVerification ==
    \/ Call("resendEmailVerification", "POST")
    \/ \E resp \in Responses({}) :
           Finish("resendEmailVerification", resp,
                  voidOrThrow(settle(localStorage, resp),
                              "Failed to resend verification email"))

\* getCurrentUser and getUserOrganization, which read the cached user; a
\* token refresh whose response lacks the user leaves a text that is not JSON.
ProfileNext ==
    \/ Tick
    \/ loginCall
    \/ \E resp \in Responses(ServiceLogins) : loginSettle(resp)
    \/ refreshTokenCall
    \/ \E resp \in Responses(SampleData) : refreshTokenSettle(resp)
    \/ getCurrentUserCall
    \/ \E resp \in Responses(UserData) : getCurrentUserSettle(resp)
    \/ getUserOrganizationCall
    \/ \E resp \in Responses(OrgData) : getUserOrganizationSettle(resp)

ProfileSpec == Init /\ [][ProfileNext]_vars

\* The single-request operations on the account.
AccountNext ==
    \/ Tick
    \/ loginCall
    \/ \E resp \in Responses(ServiceLogins) : loginSettle(resp)
    \/ updateProfile
    \/ uploadAvatar
    \/ changePassword
    \/ requestPasswordReset
    \/ resetPassword
    \/ verifyEmail
    \/ resendEmailVerification

AccountSpec == Init /\ [][AccountNext]_vars

(***************************************************************************)
(* The query parameters of getOrganizations. A JavaScript value is a record *)
(* of its type t and, by the type, its number n or its string s.           *)
(***************************************************************************)
Js(t, n, s) == [t |-> t, n |-> n, s |-> s]

\* String(value), api.ts line 287.
String(value) ==
    CASE value.t = "number" -> ToString(value.n)
      [] value.t = "string" -> value.s
      [] OTHER -> value.t

\* if (value): of the values here, undefined, null, '' and 0 are falsy.
jsTruthy(value) ==
    \/ value.t = "string" /\ value.s # ""
    \/ value.t = "number" /\ value.n # 0

\* A parameter with a default value takes it when the argument is undefined.
orDefault(value, default) == IF value.t = "undefined" THEN Js("number", default, "") ELSE value

formatParamsMutDropFalsy(params) ==
    [key \in {k \in DOMAIN params : jsTruthy(params[k])} |-> String(params[key])]

\* apiUtils.formatParams, api.ts lines 282-292.
formatParams(params) ==
    [key \in {k \in DOMAIN params :
                 ~(params[k].t = "null" \/ params[k].t = "undefined"
                   \/ (params[k].t = "string" /\ params[k].s = ""))}
        |-> String(params[key])]

\* apiUtils.createPaginationParams, api.ts lines 295-299.
createPaginationParams(page, limit, search) ==
    LET p == orDefault(page, 1)
        l == orDefault(limit, 10)
    IN  [key \in {"page", "limit"} \cup (IF jsTruthy(search) THEN {"search"} ELSE {})
            |-> CASE key = "page" -> p [] key = "limit" -> l [] OTHER -> search]

\* getOrganizations, part_000 lines 545-559: the parameters it hands to
\* httpClient.get. filters is Null (undefined) or one record of the three
\* filters, each a value.
getOrganizationsParams(page, limit, filters) ==
    LET params == createPaginationParams(
                      orDefault(page, 1), orDefault(limit, 20),
                      IF filters = Null THEN Js("undefined", 0, "") ELSE filters[1].search)
        added == IF filters = Null THEN {}
                 ELSE {f \in {"name", "email"} : jsTruthy(filters[1][f])}
    IN  formatParams([key \in DOMAIN params \cup added
                         |-> IF key \in added THEN filters[1][key] ELSE params[key]])

\* getOrganizations called with arguments, up to the fetch.
getOrganizationsWith(page, limit, filters) ==
    LET p == prepare(localStorage, Null, now)
    IN  /\ CanCall("getOrganizations")
        /\ localStorage' = p.ls
        /\ inflight' = inflight \cup {"getOrganizations"}
        /\ ev' = [Sent("getOrganizations", "GET", p.auth)
                  EXCEPT !.url = <<"/organisations", getOrganizationsParams(page, limit, filters)>>,
                         !.args = <<[page |-> page, limit |-> limit, filters |-> filters]>>]
        /\ UNCHANGED <<now, chk, view>>

\* The arguments: a page and a limit that are left out or given (0 is a
\* number too), and filters that are left out, null, empty or given.
ParamsNext ==
    \/ \E page \in {Js("undefined", 0, ""), Js("number", 0, ""), Js("number", 2, "")},
          limit \in {Js("undefined", 0, ""), Js("number", 0, ""), Js("number", 50, "")},
          filters \in {Null} \cup
              {<<f>> : f \in [search : {Js("undefined", 0, ""), Js("null", 0, ""),
                                        Js("string", 0, ""), Js("string", 0, "acme")},
                              name : {Js("undefined", 0, ""), Js("null", 0, ""),
                                      Js("string", 0, ""), Js("string", 0, "Acme")},
                              email : {Js("undefined", 0, ""), Js("null", 0, ""),
                                       Js("string", 0, ""), Js("string", 0, "a@b.c")}]} :
           getOrganizationsWith(page, limit, filters)
    \/ \E resp \in Responses(OrgData) :
           Finish("getOrganizations", resp, getOrganizationsResult(settle(localStorage, resp)))

ParamsSpec == Init /\ [][ParamsNext]_vars


(***************************************************************************)
(* The handlers of the OrganizationManagement component. A control can be  *)
(* used when the component renders it and it is not disabled.              *)
(***************************************************************************)
\* A handler that sends nothing.
ViewStep(handler, v) ==
    /\ view' = v
    /\ ev' = [NoEvent("view") EXCEPT !.op = handler]
    /\ UNCHANGED <<localStorage, now, inflight, chk>>

\* A handler up to the fetch of its service call.
ViewSend(op, verb, url, body, v) ==
    LET p == prepare(localStorage, Null, now)
    IN  /\ CanCall(op)
        /\ localStorage' = p.ls
        /\ inflight' = inflight \cup {op}
        /\ ev' = [Sent(op, verb, p.auth) EXCEPT !.url = url, !.body = body]
        /\ view' = v
        /\ UNCHANGED <<now, chk>>

\* A handler from the settling of its service call, with result r, to its end.
ViewFinish(op, verb, resp, r, v) ==
    /\ op \in inflight
    /\ localStorage' = r.ls
    /\ inflight' = inflight \ {op}
    /\ ev' = Settled(op, verb, resp, r)
    /\ view' = v
    /\ UNCHANGED <<now, chk>>

\* What the user types into a field of a form. (The messages the handlers
\* set are written without their accents.)
TypedValues == {"", "New"}

\* Lines 65-69; the button of lines 252-258.
handleEdit ==
    /\ view.currentOrganization # Null /\ ~view.isEditing
    /\ ViewStep("handleEdit",
                [view EXCEPT !.isEditing = TRUE, !.error = Null, !.success = Null])

\* The inputs of the edit form, lines 295-352.
setEditFormData(f, value) ==
    /\ view.currentOrganization # Null /\ view.isEditing
    /\ ViewStep("setEditFormData", [view EXCEPT !.editFormData[f] = value])

handleCancelEditMutKeepForm ==
    /\ view.currentOrganization # Null /\ view.isEditing
    /\ ViewStep("handleCancelEdit",
                [view EXCEPT !.isEditing = FALSE, !.error = Null, !.success = Null])

\* Lines 71-84; the button of lines 269-274.
handleCancelEdit ==
    /\ view.currentOrganization # Null /\ view.isEditing
    /\ ViewStep("handleCancelEdit",
                [view EXCEPT !.isEditing = FALSE, !.error = Null, !.success = Null,
                             !.editFormData = formOf(view.currentOrganization[1])])

handleSaveEditCallMutNotDisabled ==
    /\ view.currentOrganization # Null /\ view.isEditing
    /\ view.timers < MaxTimers
    /\ ViewSend("updateOrganization", "PUT",
                <<"/organisations", view.currentOrganization[1].id>>,
                <<view.editFormData>>,
                [view EXCEPT !.loading = TRUE, !.error = Null,
                             !.closure = view.currentOrganization])

\* Lines 86-100; the button of lines 275-282, disabled while loading.
handleSaveEditCall ==
    /\ view.currentOrganization # Null /\ view.isEditing /\ ~view.loading
    /\ view.timers < MaxTimers
    /\ ViewSend("updateOrganization", "PUT",
                <<"/organisations", view.currentOrganization[1].id>>,
                <<view.editFormData>>,
                [view EXCEPT !.loading = TRUE, !.error = Null,
                             !.closure = view.currentOrganization])

handleSaveEditSettleMutSilent(resp) ==
    LET r == dataOrThrow(settle(localStorage, resp), "Failed to update organization")
    IN  ViewFinish("updateOrganization", "PUT", resp, r,
            IF r.resolved
            THEN [contextUpdateOrganization(view, mergeSaved(view.closure[1], r.value[1]))
                  EXCEPT !.isEditing = FALSE,
                         !.success = <<"Organisation mise a jour avec succes">>,
                         !.timers = @ + 1, !.loading = FALSE, !.closure = Null]
            ELSE [view EXCEPT !.loading = FALSE, !.closure = Null])

\* Lines 100-122, with updateOrganization of the service at lines 611-624 of
\* part_000.
handleSaveEditSettle(resp) ==
    LET r == dataOrThrow(settle(localStorage, resp), "Failed to update organization")
    IN  ViewFinish("updateOrganization", "PUT", resp, r,
            IF r.resolved
            THEN [contextUpdateOrganization(view, mergeSaved(view.closure[1], r.value[1]))
                  EXCEPT !.isEditing = FALSE,
                         !.success = <<"Organisation mise a jour avec succes">>,
                         !.timers = @ + 1, !.loading = FALSE, !.closure = Null]
            ELSE [view EXCEPT !.error = <<r.err>>, !.loading = FALSE, !.closure = Null])

\* setTimeout(() => setSuccess(null), 3000), lines 119 and 144.
successTimer ==
    /\ view.timers > 0
    /\ ViewStep("successTimer", [view EXCEPT !.success = Null, !.timers = @ - 1])

\* Lines 193 and 213.
openCreateModal ==
    /\ ~view.showCreateModal
    /\ ViewStep("openCreateModal", [view EXCEPT !.showCreateModal = TRUE])

\* Lines 415 and 470; the modal is rendered, at line 409, only below the
\* early return of lines 186-202.
closeCreateModal ==
    /\ view.currentOrganization # Null /\ view.showCreateModal
    /\ ViewStep("closeCreateModal", [view EXCEPT !.showCreateModal = FALSE])

\* The inputs of the create form, lines 424-462.
setCreateFormData(f, value) ==
    /\ view.currentOrganization # Null /\ view.showCreateModal
    /\ ViewStep("setCreateFormData", [view EXCEPT !.createFormData[f] = value])

handleCreateOrganizationCallMutNoGuard ==
    /\ view.currentOrganization # Null /\ view.showCreateModal /\ ~view.loading
    /\ view.timers < MaxTimers
    /\ ViewSend("createOrganization", "POST", <<"/organisations">>,
                <<view.createFormData>>,
                [view EXCEPT !.loading = TRUE, !.error = Null])

\* Lines 125-137; the button of lines 475-481, disabled while the name or the
\* email is empty and while loading.
handleCreateOrganizationCall ==
    /\ view.currentOrganization # Null /\ view.showCreateModal
    /\ ~(view.createFormData.name = "" \/ view.createFormData.email = "" \/ view.loading)
    /\ view.timers < MaxTimers
    /\ ViewSend("createOrganization", "POST", <<"/organisations">>,
                <<view.createFormData>>,
                [view EXCEPT !.loading = TRUE, !.error = Null])

\* Lines 137-150, with createOrganization of the service at lines 593-606 of
\* part_000.
handleCreateOrganizationSettle(resp) ==
    LET r == dataOrThrow(settle(localStorage, resp), "Failed to create organization")
    IN  ViewFinish("createOrganization", "POST", resp, r,
            IF r.resolved
            THEN [view EXCEPT !.showCreateModal = FALSE, !.createFormData = EmptyForm,
                              !.success = <<"Organisation creee avec succes">>, !.timers = @ + 1,
                              !.loading = FALSE]
            ELSE [view EXCEPT !.error = <<r.err>>, !.loading = FALSE])

\* The component is mounted with or without an organization in the context.
ViewInit ==
    /\ localStorage = EmptyStorage
    /\ now = 0
    /\ inflight = {}
    /\ ev = NoEvent("init")
    /\ chk = NoCheck
    /\ view \in {InitialView(org) : org \in {Null} \cup {<<d>> : d \in DisplayedOrgs}}

\* Editing, cancelling and saving.
EditNext ==
    \/ handleEdit
    \/ \E f \in {"name", "phone"}, value \in TypedValues : setEditFormData(f, value)
    \/ handleCancelEdit
    \/ handleSaveEditCall
    \/ \E resp \in Responses(SavedOrgs) : handleSaveEditSettle(resp)
    \/ successTimer

EditSpec == ViewInit /\ [][EditNext]_vars

\* Creating an organization.
CreateNext ==
    \/ openCreateModal
    \/ closeCreateModal
    \/ \E f \in {"name", "email"}, value \in TypedValues : setCreateFormData(f, value)
    \/ handleCreateOrganizationCall
    \/ \E resp \in Responses(SavedOrgs) : handleCreateOrganizationSettle(resp)
    \/ successTimer

CreateSpec == ViewInit /\ [][CreateNext]_vars

\* setShowDeleteModal(true) of the button at lines 259-265, shown with the
\* organization while it is not being edited; setShowDeleteModal(false) of the
\* two buttons of the confirmation modal, lines 493-498 and 509-514.
setShowDeleteModal(value) ==
    /\ view.currentOrganization # Null
    /\ IF value THEN ~view.isEditing /\ ~view.showDeleteModal ELSE view.showDeleteModal
    /\ ViewStep(IF value THEN "openDeleteModal" ELSE "closeDeleteModal",
                [view EXCEPT !.showDeleteModal = value])

handleDeleteOrganizationMutNoModal ==
    \/ /\ view.currentOrganization # Null /\ ~view.loading
       /\ ViewSend("deleteOrganization", "DELETE",
                   <<"/organisations", view.currentOrganization[1].id>>, Null,
                   [view EXCEPT !.loading = TRUE, !.error = Null])
    \/ \E resp \in Responses(OrgData) :
           LET r == voidOrThrow(settle(localStorage, resp), "Failed to delete organization")
           IN  ViewFinish("deleteOrganization", "DELETE", resp, r,
                   IF r.resolved
                   THEN [view EXCEPT !.showDeleteModal = FALSE,
                                     !.success = <<"Organisation supprimee avec succes">>,
                                     !.loading = FALSE]
                   ELSE [view EXCEPT !.error = <<r.err>>, !.loading = FALSE])

\* Lines 153-173, with deleteOrganization of the service at lines 629-640 of
\* part_000; the confirm button of the modal, lines 515-521, disabled while
\* loading. The success message is set without a timer, and the organization
\* stays in the context.
handleDeleteOrganization ==
    \/ /\ view.currentOrganization # Null /\ view.showDeleteModal /\ ~view.loading
       /\ ViewSend("deleteOrganization", "DELETE",
                   <<"/organisations", view.currentOrganization[1].id>>, Null,
                   [view EXCEPT !.loading = TRUE, !.error = Null])
    \/ \E resp \in Responses(OrgData) :
           LET r == voidOrThrow(settle(localStorage, resp), "Failed to delete organization")
           IN  ViewFinish("deleteOrganization", "DELETE", resp, r,
                   IF r.resolved
                   THEN [view EXCEPT !.showDeleteModal = FALSE,
                                     !.success = <<"Organisation supprimee avec succes">>,
                                     !.loading = FALSE]
                   ELSE [view EXCEPT !.error = <<r.err>>, !.loading = FALSE])

\* Saving, creating and deleting, with the messages they set.
MessageNext ==
    \/ handleEdit
    \/ handleCancelEdit
    \/ handleSaveEditCall
    \/ \E resp \in Responses(OrgData) : handleSaveEditSettle(resp)
    \/ openCreateModal
    \/ closeCreateModal
    \/ \E f \in {"name", "email"} : setCreateFormData(f, "New")
    \/ handleCreateOrganizationCall
    \/ \E resp \in Responses(OrgData) : handleCreateOrganizationSettle(resp)
    \/ \E value \in BOOLEAN : setShowDeleteModal(value)
    \/ handleDeleteOrganization
    \/ successTimer

MessageSpec == ViewInit /\ [][MessageNext]_vars

\* A timer that setTimeout has started fires; the user owes no action.
MessageLiveSpec == MessageSpec /\ WF_vars(successTimer)


(***************************************************************************)
(* Properties.                                                             *)
(***************************************************************************)
IsSend(e, op) == e.type = "send" /\ e.op = op
IsSettle(e, op) == e.type = "settle" /\ e.op = op
AuthOps == {"login", "register"}
NoTokenMessage == "No authentication token received from server"
NoUserMessage == "No user data received from server"

\* C1: a request issued while the stored token exists and is expired carries
\* no Authorization header and leaves the storage cleared; an Authorization
\* header is only sent with a token that is not expired at send time.
C1_ExpiredTokenNeverSent ==
    [][ev'.type = "send" =>
          /\ (getToken(localStorage) # Null /\ isTokenExpired(getToken(localStorage), now'))
                => (ev'.auth = Null /\ localStorage' = EmptyStorage)
          /\ ev'.auth # Null => ~isTokenExpired(ev'.auth, now')]_vars

\* C2: every 401 response to an HttpClient call rejects the call and leaves
\* the storage empty.
C2_Status401ClearsSession ==
    (IsSettle(ev, "http") /\ ev.status = 401)
        => (ev.outcome = "rejected" /\ localStorage = EmptyStorage)

\* C3 as stated: logout always resolves with the storage empty, and the
\* /logout request is sent with the storage as it was when logout was called.
C3_LogoutSentWithSessionStored ==
    [][/\ IsSettle(ev', "logout") => (ev'.outcome = "resolved" /\ localStorage' = EmptyStorage)
       /\ IsSend(ev', "logout") => localStorage' = localStorage]_vars

\* C3, amended: logout always resolves with the storage empty, whatever the
\* remote call did; the /logout request is sent with the storage as it was
\* when logout was called unless the stored token is expired, in which case
\* the storage is already empty when the request is sent.
C3_LogoutClearsLast ==
    [][/\ IsSettle(ev', "logout") => (ev'.outcome = "resolved" /\ localStorage' = EmptyStorage)
       /\ IsSend(ev', "logout") =>
             localStorage' =
                 IF truthy(getToken(localStorage)) /\ isTokenExpired(getToken(localStorage), now')
                 THEN EmptyStorage ELSE localStorage]_vars

C3_Witness ==
    /\ IsSettle(ev, "logout") /\ ev.status = 500 /\ ev.outcome = "resolved"
    /\ localStorage = EmptyStorage

\* C4: login and register resolve only with a response that has a token and
\* a user; when they reject, no token and no cached user are stored and
\* isAuthenticated is false.
C4_FailedLoginLeavesNoSession ==
    \A op \in AuthOps :
        /\ (IsSettle(ev, op) /\ ev.outcome = "resolved")
              => (ev.status = 200 /\ ev.value # Null
                  /\ truthy(ev.value[1].token) /\ ev.value[1].user # Null)
        /\ (IsSettle(ev, op) /\ ev.outcome = "rejected")
              => /\ getToken(localStorage) = Null
                 /\ getUser(localStorage) = [ok |-> TRUE, v |-> Null]
                 /\ ~isAuthenticatedResult(localStorage, now)

C4_Witness ==
    /\ IsSettle(ev, "register") /\ ev.outcome = "rejected" /\ ev.err = NoUserMessage
    /\ getToken(localStorage) = Null

\* C5 as stated: a login or register that fails for want of a token or of a
\* user leaves the four storage entries as they were before the call settled.
C5_FailedLoginKeepsSession ==
    [][\A op \in AuthOps :
          (IsSettle(ev', op) /\ ev'.err \in {NoTokenMessage, NoUserMessage})
              => localStorage' = localStorage]_vars

\* C5, amended: a login or register that fails for want of a token or of a
\* user stores nothing of the response and removes all four storage entries,
\* those of an earlier session included.
C5_FailedLoginClearsSession ==
    \A op \in AuthOps :
        (IsSettle(ev, op) /\ ev.err \in {NoTokenMessage, NoUserMessage})
            => (ev.outcome = "rejected" /\ ev.value = Null /\ localStorage = EmptyStorage)

C5_Witness ==
    /\ IsSettle(ev, "login") /\ ev.err = NoTokenMessage /\ ev.outcome = "rejected"
    /\ localStorage = EmptyStorage

\* C6: after login or register resolves with {token, refreshToken, user,
\* first_time_login}, the storage holds that token, that refresh token when
\* one was supplied, a cached user that reads back equal to that user, and a
\* first-time-login flag that reads true iff first_time_login is 1.
C6_LoginStoresResponse ==
    \A op \in AuthOps :
        (IsSettle(ev, op) /\ ev.outcome = "resolved") =>
            LET d == ev.value[1]
            IN  /\ getToken(localStorage) = d.token
                /\ truthyRefresh(d.refreshToken) => getRefreshToken(localStorage) = d.refreshToken
                /\ getUser(localStorage) = [ok |-> TRUE, v |-> d.user]
                /\ getFirstTimeLogin(localStorage) <=> d.first_time_login = 1

C6_Witness ==
    /\ IsSettle(ev, "login") /\ ev.outcome = "resolved"
    /\ ev.value = <<Session(0, <<"r1">>, 1)>>
    /\ getToken(localStorage) = Jwt(0)
    /\ getRefreshToken(localStorage) = <<"r1">>
    /\ getFirstTimeLogin(localStorage)

\* C7: refreshToken resolves only with a 200 response that has data, and the
\* storage then holds the token, refresh token and user of that response;
\* whenever it rejects the storage is empty; and without a stored refresh
\* token it rejects without sending a request.
C7_RefreshOverwritesOrClears ==
    [][/\ (IsSettle(ev', "refreshToken") /\ ev'.outcome = "resolved") =>
             /\ ev'.status = 200 /\ ev'.value # Null
             /\ localStorage'.token = tokenString(ev'.value[1].token)
             /\ localStorage'.refreshToken = refreshString(ev'.value[1].refreshToken)
             /\ localStorage'.user = <<JSONstringify(ev'.value[1].user)>>
       /\ (IsSettle(ev', "refreshToken") /\ ev'.outcome = "rejected") =>
             localStorage' = EmptyStorage
       /\ (IsSettle(ev', "refreshToken") /\ ev'.status # 200) => ev'.outcome = "rejected"
       /\ (ev'.op = "refreshToken" /\ "refreshToken" \notin inflight
           /\ ~truthyRefresh(getRefreshToken(localStorage))) =>
             /\ ev'.type = "settle" /\ ev'.outcome = "rejected"
             /\ inflight' = inflight /\ localStorage' = EmptyStorage]_vars

C7_Witness ==
    /\ IsSettle(ev, "refreshToken") /\ ev.outcome = "resolved"
    /\ ev.value = <<Session(1, <<"r2">>, 0)>>
    /\ localStorage.token = Jwt(1) /\ localStorage.refreshToken = <<"r2">>
    /\ localStorage.firstTimeLogin = <<"1">>

\* C8: isTokenExpired returns true for every token that does not have exactly
\* three segments and for every token whose middle segment cannot be
\* base64-decoded and parsed as JSON.
Unparseable(seg) == seg.kind \in {"empty", "undefined", "notBase64", "notJson"}
C8_MalformedTokenIsExpired ==
    (chk.called /\ (Len(chk.token) # 3 \/ Unparseable(chk.token[2])))
        => chk.result

\* C9: for a token whose payload has an integer exp, isTokenExpired returns
\* true when exp seconds is earlier than the current time and false when it
\* is later.
HasIntegerExp(token) ==
    Len(token) >= 2 /\ token[2].kind = "jsonObject" /\ token[2].exp = "int"
C9_ExpiryComparesExpWithNow ==
    (chk.called /\ HasIntegerExp(chk.token)) =>
        /\ chk.token[2].n * MsPerSecond < chk.nowMs => chk.result
        /\ chk.token[2].n * MsPerSecond > chk.nowMs => ~chk.result

C9_Witness ==
    /\ chk.called /\ HasIntegerExp(chk.token) /\ Len(chk.token) = 3
    /\ chk.token[2].n * MsPerSecond > chk.nowMs /\ chk.nowMs > 0
    /\ ~chk.result

\* C10: isAuthenticated returns true iff a token is stored and is not
\* expired; it sends nothing and leaves the storage as it is, an expired
\* token included.
C10_IsAuthenticatedReadsOnly ==
    [][(ev'.type = "sync" /\ ev'.op = "isAuthenticated") =>
          /\ ev'.result <=> (localStorage.token # Null
                             /\ ~isTokenExpired(localStorage.token, now))
          /\ UNCHANGED <<localStorage, inflight, now>>]_vars

C10_Witness ==
    /\ ev.type = "sync" /\ ev.op = "isAuthenticated" /\ ~ev.result
    /\ localStorage.token = Jwt(0) /\ isTokenExpired(localStorage.token, now)

\* C11: a request aborted by the timeout signal rejects with the dedicated
\* error 'Request timeout'.
C11_TimeoutRejectsWithRequestTimeout ==
    (IsSettle(ev, "http") /\ ev.resp.kind = "timeout") =>
        (ev.outcome = "rejected" /\ ev.err = "Request timeout")

\* C12: a response with a status outside 2xx other than 401 rejects with the
\* message field of its body when the body has one, and with the synthesized
\* 'HTTP <status>: <statusText>' otherwise, a body that is not JSON included.
HasBodyMessage(resp) ==
    resp.json /\ resp.body.kind = "envelope" /\ resp.body.message # Null
C12_ErrorStatusRejectsWithBodyMessage ==
    (IsSettle(ev, "http") /\ ev.resp.kind = "http"
     /\ ~ok(ev.resp.status) /\ ev.resp.status # 401) =>
        /\ ev.outcome = "rejected"
        /\ ev.err = IF HasBodyMessage(ev.resp) THEN ev.resp.body.message[1]
                    ELSE "HTTP 500: Internal Server Error"

\* C13: a 2xx response resolves with its body as it is when the body has a
\* success field, with {success: true, data: body} when it has none, and with
\* an envelope of success true, a message and no data when the body is not
\* JSON.
C13_OkStatusReturnsEnvelope ==
    (IsSettle(ev, "http") /\ ev.resp.kind = "http" /\ ok(ev.resp.status)) =>
        /\ ev.outcome = "resolved"
        /\ LET body == ev.resp.body
           IN  IF ev.resp.json /\ body.kind = "envelope"
               THEN ev.env = Envelope(body.success, body.data, body.message)
               ELSE IF ev.resp.json /\ body.kind = "raw"
               THEN ev.env = Envelope(TRUE, body.data, Null)
               ELSE ev.env.success /\ ev.env.data = Null /\ ev.env.message # Null

\* The HttpClient call of a settled operation returned an envelope with
\* success false, or rejected.
ClientFailed(resp) ==
    LET out == settle(EmptyStorage, resp)
    IN  ~out.resolved \/ ~out.env.success
ThrowingOrgOps ==
    {"getOrganizations", "getOrganization", "createOrganization", "updateOrganization",
     "deleteOrganization", "searchOrganizations"}
OrgOps == ThrowingOrgOps \cup {"getCurrentUserOrganization"}

\* C14 as stated: every OrganizationService operation rejects when its
\* HttpClient call returns success false or rejects.
C14_EveryOrgOperationRejects ==
    (ev.type = "settle" /\ ev.op \in OrgOps /\ ClientFailed(ev.resp)) =>
        ev.outcome = "rejected"

\* C14, amended: getOrganizations, getOrganization, createOrganization,
\* updateOrganization, deleteOrganization and searchOrganizations reject and
\* return no value when their HttpClient call returns success false or
\* rejects; getCurrentUserOrganization resolves with null then.
C14_OrgOperationsRejectExceptCurrentUser ==
    (ev.type = "settle" /\ ev.op \in OrgOps /\ ClientFailed(ev.resp)) =>
        /\ ev.value = Null
        /\ ev.op \in ThrowingOrgOps => ev.outcome = "rejected" /\ ev.err # ""
        /\ ev.op = "getCurrentUserOrganization" => ev.outcome = "resolved"

C14_Witness ==
    /\ IsSettle(ev, "updateOrganization") /\ ev.resp.kind = "http" /\ ev.status = 200
    /\ ev.resp.body.kind = "envelope" /\ ~ev.resp.body.success
    /\ ev.outcome = "rejected" /\ ev.err = "Failed to update organization"
    /\ localStorage.token # Null

\* A step of op that starts a call of it / that handles the response to it.
IsCallStep(op) == ev'.op = op /\ op \notin inflight
IsResponseStep(op) == ev'.op = op /\ op \in inflight

\* C15: getCurrentUser sends GET /user only when no user is cached; a cached
\* user is returned with no request and no write to the storage; a user
\* fetched successfully is stored as the cached user.
C15_GetCurrentUserPrefersCache ==
    [][LET localUser == getUser(localStorage)
       IN  /\ (IsCallStep("getCurrentUser") /\ ev'.type = "send") =>
                  /\ localUser.ok /\ localUser.v = Null
                  /\ ev'.verb = "GET" /\ ev'.url = <<"/user">>
           /\ (IsCallStep("getCurrentUser") /\ localUser.ok /\ localUser.v # Null) =>
                  /\ ev'.type = "settle" /\ ev'.outcome = "resolved"
                  /\ ev'.value = localUser.v
                  /\ UNCHANGED <<localStorage, inflight>>
           /\ (IsResponseStep("getCurrentUser") /\ ev'.outcome = "resolved") =>
                  /\ ev'.value # Null /\ ev'.value = ev'.resp.body.data
                  /\ getUser(localStorage') = [ok |-> TRUE, v |-> ev'.value]]_vars

C15_Witness ==
    /\ IsSettle(ev, "getCurrentUser") /\ ev.resp = NoResponse
    /\ ev.outcome = "resolved" /\ ev.value = <<User(1, 7)>>
    /\ getUser(localStorage).v = ev.value
    /\ "getCurrentUser" \notin inflight

\* The operations that resolve with nothing.
VoidOps ==
    {"changePassword", "requestPasswordReset", "resetPassword", "verifyEmail",
     "resendEmailVerification"}
UserOps == {"updateProfile", "uploadAvatar"}

\* C16 as stated: when updateProfile or uploadAvatar resolves the cached user
\* is the user of the response; the cached user is the same before and after
\* a call of changePassword, requestPasswordReset, resetPassword, verifyEmail
\* or resendEmailVerification, whatever token the call starts with: neither
\* issuing the call nor its resolving changes it (every call issued can
\* resolve).
C16_CachedUserAsBeforeTheCall ==
    [][/\ (ev'.op \in UserOps /\ ev'.type = "settle" /\ ev'.outcome = "resolved") =>
              getUser(localStorage') = [ok |-> TRUE, v |-> ev'.resp.body.data]
       /\ (ev'.op \in VoidOps /\ (ev'.type = "send" \/ ev'.outcome = "resolved")) =>
              localStorage'.user = localStorage.user]_vars

\* C16, amended: when updateProfile or uploadAvatar resolves the cached user
\* is the user of the response and nothing else of the storage changes; the
\* resolving of the other five changes nothing of the storage; issuing one
\* of the five with a stored token that is expired removes the cached user
\* with the rest of the session, and changes nothing otherwise.
C16_CachedUserKeptUnlessTokenExpired ==
    [][/\ (ev'.op \in UserOps /\ ev'.type = "settle" /\ ev'.outcome = "resolved") =>
              /\ ev'.resp.body.data # Null
              /\ localStorage' = setUser(localStorage, ev'.resp.body.data)
       /\ (ev'.op \in VoidOps /\ ev'.type = "settle" /\ ev'.outcome = "resolved") =>
              localStorage' = localStorage
       /\ (ev'.op \in VoidOps /\ ev'.type = "send") =>
              localStorage' =
                  IF truthy(getToken(localStorage))
                     /\ isTokenExpired(getToken(localStorage), now)
                  THEN EmptyStorage ELSE localStorage]_vars

C16_Witness ==
    /\ IsSettle(ev, "changePassword") /\ ev.outcome = "resolved" /\ ev.status = 200
    /\ getUser(localStorage).v = <<User(2, 0)>>
    /\ now > 0 /\ ~isTokenExpired(getToken(localStorage), now)

\* C17: getUserOrganization returns null without a request when no user is
\* cached or the cached user has no organisation_id; otherwise it requests
\* the organization of exactly that id; it resolves whatever the response,
\* with null when the request failed.
C17_GetUserOrganizationNeverRejects ==
    [][LET user == getUser(localStorage)
       IN  /\ IsCallStep("getUserOrganization") =>
                  IF ~user.ok \/ user.v = Null
                  THEN /\ ev'.type = "settle" /\ ev'.outcome = "resolved"
                       /\ ev'.value = Null /\ UNCHANGED <<localStorage, inflight>>
                  ELSE IF user.v[1].organisation_id = 0
                  THEN /\ ev'.type = "settle" /\ ev'.outcome = "resolved"
                       /\ ev'.value = Null /\ UNCHANGED <<localStorage, inflight>>
                  ELSE /\ ev'.type = "send" /\ ev'.verb = "GET"
                       /\ ev'.url = <<"/organisations", user.v[1].organisation_id>>
           /\ IsResponseStep("getUserOrganization") =>
                  /\ ev'.outcome = "resolved"
                  /\ ClientFailed(ev'.resp) => ev'.value = Null]_vars

C17_Witness ==
    /\ IsSettle(ev, "getUserOrganization") /\ ev.resp.kind = "http" /\ ev.status = 500
    /\ ev.outcome = "resolved" /\ ev.value = Null
    /\ getUser(localStorage).v = <<User(1, 7)>>

\* C18: every createOrganization request the view sends carries a name and an
\* email that are not empty; with an empty name or email in the create form
\* the create action sends nothing.
C18_NoCreateRequestWithEmptyNameOrEmail ==
    [][/\ ev'.op = "createOrganization" /\ ev'.type = "send" =>
              /\ ev'.body # Null
              /\ ev'.body[1].name # "" /\ ev'.body[1].email # ""
              /\ ev'.body[1] = view.createFormData
       /\ (view.createFormData.name = "" \/ view.createFormData.email = "") =>
              /\ "createOrganization" \notin inflight' \ inflight
              /\ ~(ev'.op = "createOrganization" /\ ev'.type = "send")]_vars

C18_Witness ==
    /\ view.showCreateModal /\ view.currentOrganization # Null
    /\ view.createFormData.name = "New" /\ view.createFormData.email = ""
    /\ ev.type = "view" /\ ev.op = "setCreateFormData"
    /\ ~view.loading /\ inflight = {}

\* C19: when a save succeeds the displayed organization is the record
\* displayed before overlaid with the fields of the server's organization,
\* except that avatar, role, memberCount and plan keep the values they had,
\* also when the server's organization has fields of these names.
C19_SaveMergesAndKeepsDecorativeFields ==
    [][(IsResponseStep("updateOrganization") /\ ev'.outcome = "resolved") =>
          /\ view.currentOrganization # Null /\ view'.currentOrganization # Null
          /\ ev'.resp.body.data # Null
          /\ LET before == view.currentOrganization[1]
                 server == ev'.resp.body.data[1]
                 after == view'.currentOrganization[1]
             IN  /\ \A f \in DecorativeFields : get(after, f) = get(before, f)
                 /\ \A f \in DOMAIN server \ DecorativeFields : get(after, f) = server[f]
                 /\ \A f \in DOMAIN before \ (DOMAIN server \cup DecorativeFields) :
                        get(after, f) = before[f]
                 /\ DOMAIN after \subseteq
                        DOMAIN before \cup DOMAIN server \cup DecorativeFields]_vars

C19_Witness ==
    /\ IsSettle(ev, "updateOrganization") /\ ev.outcome = "resolved"
    /\ ev.resp.body.data # Null /\ view.currentOrganization # Null
    /\ get(ev.resp.body.data[1], "avatar") = "S"
    /\ get(view.currentOrganization[1], "avatar") = "A"
    /\ get(view.currentOrganization[1], "phone") = "777"
    /\ get(view.currentOrganization[1], "email") = "old@y.com"

\* C20: starting an edit, typing into the edit form and cancelling change
\* nothing of the displayed organization and send nothing; after the cancel
\* the view is out of edit mode and the edit form holds the name, email,
\* address and phone of the displayed organization (the empty text for a
\* field the organization lacks).
C20_CancelRestoresFormAndKeepsRecord ==
    [][/\ (ev'.type = "view"
           /\ ev'.op \in {"handleEdit", "setEditFormData", "handleCancelEdit"}) =>
              /\ view'.currentOrganization = view.currentOrganization
              /\ UNCHANGED <<inflight, localStorage>>
       /\ (ev'.type = "view" /\ ev'.op = "handleCancelEdit") =>
              /\ ~view'.isEditing
              /\ view'.currentOrganization # Null
              /\ \A f \in FormFields :
                     view'.editFormData[f] =
                         IF f \in DOMAIN view'.currentOrganization[1]
                         THEN view'.currentOrganization[1][f] ELSE ""]_vars

C20_Witness ==
    /\ ev.type = "view" /\ ev.op = "handleCancelEdit"
    /\ ~view.isEditing /\ view.loading
    /\ view.currentOrganization # Null
    /\ "phone" \notin DOMAIN view.currentOrganization[1]
    /\ view.editFormData = formOf(view.currentOrganization[1])


\* C21: every success message the view sets is eventually dismissed by a
\* timer, with no user action: once a success message is shown, a state
\* without it follows, the timers being the only steps that are owed.
C21_SuccessEventuallyDismissed == (view.success # Null) ~> (view.success = Null)

\* C22: a deleteOrganization request is sent only from the confirmation
\* step: the modal starts closed, only the delete button opens it, the
\* request is sent with the modal open, and closing the modal sends nothing.
C22_DeleteOnlyFromConfirmation ==
    /\ ~view.showDeleteModal
    /\ [][/\ IsSend(ev', "deleteOrganization")
                => view.showDeleteModal /\ view'.showDeleteModal
          /\ view'.showDeleteModal /\ ~view.showDeleteModal => ev'.op = "openDeleteModal"
          /\ ev'.op = "closeDeleteModal" => inflight' = inflight /\ ~IsSend(ev', "deleteOrganization")
         ]_vars

C22_Witness ==
    /\ IsSend(ev, "deleteOrganization")
    /\ view.showDeleteModal /\ view.loading
    /\ ev.url = <<"/organisations", 42>>

\* C23: when the service call of the save, create or delete handler rejects,
\* the handler ends without rejecting (it is no longer loading, its call is
\* settled), the error message is a non-empty text, and the handler sets no
\* success message (the one shown before, if any, is left as it was).
ViewOps == {"updateOrganization", "createOrganization", "deleteOrganization"}

C23_RejectedCallSetsErrorOnly ==
    [][ev'.type = "settle" /\ ev'.op \in ViewOps /\ ev'.outcome = "rejected"
         => /\ ev'.op \notin inflight' /\ ~view'.loading
            /\ view'.error # Null /\ view'.error[1] # ""
            /\ view'.error = <<ev'.err>>
            /\ view'.success = view.success
            /\ view'.timers = view.timers]_vars

C23_Witness ==
    /\ ev.type = "settle" /\ ev.op = "deleteOrganization" /\ ev.outcome = "rejected"
    /\ ev.resp.kind = "timeout"
    /\ view.error # Null /\ view.success # Null /\ ~view.loading

\* C24: with logout and refreshToken in flight together, the response handled
\* last decides the session: a refresh that resolves, also after logout has
\* completed and cleared the storage, leaves the token, the refresh token
\* and the user of its response in the storage; a logout that completes,
\* also after the refresh has resolved, leaves the storage empty.
RefreshStored(ls, d) ==
    /\ getToken(ls) = tokenString(d.token)
    /\ getRefreshToken(ls) = refreshString(d.refreshToken)
    /\ ls.user = <<JSONstringify(d.user)>>

C24_LastProcessedResponseDecides ==
    [][/\ (ev'.type = "settle" /\ ev'.op = "refreshToken" /\ ev'.outcome = "resolved")
            => RefreshStored(localStorage', ev'.value[1])
       /\ (ev'.type = "settle" /\ ev'.op = "logout")
            => (localStorage' = EmptyStorage /\ ev'.outcome = "resolved")
       /\ (/\ ev.type = "settle" /\ ev.op = "logout" /\ "refreshToken" \in inflight
           /\ ev'.type = "settle" /\ ev'.op = "refreshToken" /\ ev'.resp.kind = "http"
           /\ ev'.resp.status = 200 /\ ev'.resp.body.kind = "envelope"
           /\ ev'.resp.body.success /\ ev'.resp.body.data # Null)
            => (/\ getToken(localStorage') = tokenString(ev'.resp.body.data[1].token)
                /\ "logout" \notin inflight')
      ]_vars

\* logout has completed and cleared the storage while the refresh it raced
\* with is still in flight.
C24_Witness ==
    /\ ev.type = "settle" /\ ev.op = "logout"
    /\ "refreshToken" \in inflight /\ "logout" \notin inflight
    /\ localStorage = EmptyStorage

\* C25: the query parameters getOrganizations sends hold no empty, null or
\* undefined value: every value is a non-empty text, page and limit are
\* always among them, and search, name and email are among them exactly when
\* the filter given is a non-empty string, with that string as the value.
SentParams == ev.url[2]
GivenFilter(f) ==
    IF ev.args[1].filters = Null THEN Js("undefined", 0, "") ELSE ev.args[1].filters[1][f]

C25_NoEmptyQueryParameter ==
    IsSend(ev, "getOrganizations") =>
        /\ \A key \in DOMAIN SentParams : SentParams[key] \notin {"", "null", "undefined"}
        /\ {"page", "limit"} \subseteq DOMAIN SentParams
        /\ DOMAIN SentParams \subseteq {"page", "limit", "search", "name", "email"}
        /\ \A f \in {"search", "name", "email"} :
               /\ f \in DOMAIN SentParams
                    <=> (GivenFilter(f).t = "string" /\ GivenFilter(f).s # "")
               /\ f \in DOMAIN SentParams => SentParams[f] = GivenFilter(f).s

\* A call with page 0, an empty search, a null name and an email: the
\* parameters are page=0, limit=20 and the email.
C25_Witness ==
    /\ IsSend(ev, "getOrganizations")
    /\ ev.args[1].page = Js("number", 0, "") /\ ev.args[1].limit.t = "undefined"
    /\ GivenFilter("search") = Js("string", 0, "") /\ GivenFilter("name").t = "null"
    /\ SentParams = [page |-> "0", limit |-> "20", email |-> "a@b.c"]

\* C26: isTokenExpired returns true for every three-segment token whose
\* middle segment decodes to a JSON object that has no exp field or has an
\* exp that is not a number.
C26_PayloadWithoutExpIsExpired ==
    (/\ chk.called /\ Len(chk.token) = 3
     /\ chk.token[2].kind = "jsonObject" /\ chk.token[2].exp \in {"absent", "string"})
        => chk.result

\* C27: in every reachable state of the storage a cached user is stored only
\* if a token is stored.
C27_NoCachedUserWithoutToken == localStorage.user # Null => getToken(localStorage) # Null

\* C28: after a successful login or register the stored refresh token is the
\* refresh token of that response or is absent.
C28_NoStaleRefreshToken ==
    (ev.type = "settle" /\ ev.op \in {"login", "register"} /\ ev.outcome = "resolved")
        => \/ getRefreshToken(localStorage) = Null
           \/ getRefreshToken(localStorage) = ev.value[1].refreshToken

\* C29: login and register store nothing of a response before its token and
\* its user are validated: after a response with a token and no user the call
\* has rejected for the missing user and the storage holds no token, the
\* token of the response least of all. (Validation, writes and the catch run
\* in one step, without an await between them.)
TokenWithoutUser(resp) ==
    LET out == settle(EmptyStorage, resp)
    IN  /\ out.resolved /\ out.env.success /\ out.env.data # Null
        /\ truthy(out.env.data[1].token) /\ out.env.data[1].user = Null

C29_TokenWithoutUserNeverStored ==
    (ev.type = "settle" /\ ev.op \in {"login", "register"} /\ TokenWithoutUser(ev.resp))
        => /\ ev.outcome = "rejected" /\ ev.err = "No user data received from server"
           /\ getToken(localStorage) = Null
           /\ localStorage = EmptyStorage

C29_Witness ==
    /\ ev.type = "settle" /\ ev.op = "register" /\ TokenWithoutUser(ev.resp)
    /\ ev.resp.body.data[1].token = Jwt(1)
    /\ ev.outcome = "rejected" /\ getToken(localStorage) = Null

\* C30: createOrganization and updateOrganization resolve whenever the
\* response is 2xx and its envelope has success true, a response with no data
\* and one whose body is not JSON included.
Accepted(resp) ==
    LET out == settle(EmptyStorage, resp)
    IN  resp.kind = "http" /\ ok(resp.status) /\ out.resolved /\ out.env.success

C30_AcceptedMutationResolves ==
    (/\ ev.type = "settle" /\ ev.op \in {"createOrganization", "updateOrganization"}
     /\ Accepted(ev.resp))
        => ev.outcome = "resolved"

\* C31: in every reachable state of the view the success message and the
\* error message are not both set.
C31_AtMostOneBanner == ~(view.success # Null /\ view.error # Null)

\* C32: the loading flag is true exactly while a save, create or delete
\* request of the view is in flight, and at most one such request is in
\* flight: every handler clears the flag when its call settles, resolved or
\* rejected, and none starts while the flag is set.
C32_LoadingIffRequestInFlight ==
    /\ view.loading <=> (inflight \cap ViewOps # {})
    /\ Cardinality(inflight \cap ViewOps) <= 1
    /\ (ev.type = "settle" /\ ev.op \in ViewOps) => (~view.loading /\ inflight = {})
    /\ IsSend(ev, ev.op) /\ ev.op \in ViewOps => (view.loading /\ inflight = {ev.op})

\* A delete call has rejected: the flag is cleared with the modal still open.
C32_Witness ==
    /\ ev.type = "settle" /\ ev.op = "deleteOrganization" /\ ev.outcome = "rejected"
    /\ ~view.loading /\ inflight = {} /\ view.showDeleteModal

\* C33: after the delete of the displayed organization has succeeded, that
\* organization is no longer the current one, and no delete request is sent
\* for it again: none is sent while the message of the successful delete is
\* still shown, which only a later success or handleEdit removes.
DeleteSuccess == <<"Organisation supprimee avec succes">>

C33_DeletedOrganizationGone ==
    /\ (ev.type = "settle" /\ ev.op = "deleteOrganization" /\ ev.outcome = "resolved")
          => view.currentOrganization = Null
    /\ ~(IsSend(ev, "deleteOrganization") /\ view.success = DeleteSuccess)

\* C34: a success message is dismissed only by the timer that was started for
\* it. The timers all wait three seconds, so they fire in the order they were
\* started: a timer that fires while another is pending is the older one, and
\* the message it finds was set after its own; the delete message has no
\* timer at all. So a timer that fires finds no message, or is the only one
\* pending and finds a message other than the delete message.
C34_TimerClearsOwnMessageOnly ==
    [][(ev'.op = "successTimer" /\ view.success # Null)
          => (view.timers = 1 /\ view.success # DeleteSuccess)]_vars

====
